---- MODULE Spec2Model ----
(***************************************************************************)
(* Model of the road-analysis backend (src/backend/app.py): the job        *)
(* registry active_analyses, the request handlers upload_video,            *)
(* analysis_status, analysis_results and download_report, and the two      *)
(* kinds of background thread, process_video and simulate_processing.      *)
(*                                                                         *)
(* The Flask server runs with threaded=False, so request handlers run one  *)
(* at a time; background threads interleave with them and with each other  *)
(* at every write to shared state (the registry and the result files).     *)
(***************************************************************************)
EXTENDS Integers, Sequences, FiniteSets, TLC

VARIABLES
    active_analyses,  \* the job registry: id -> record, or NoRecord
    files,            \* the result file of each id: its state and content
    threads,          \* the background thread of each id and its locals
    model,            \* the detector loaded at start-up, or "None"
    handler,          \* the request being handled, or Idle
    resp,             \* the response the last step sent to a caller, if any
    scope             \* which inputs the run draws from (fixed by Init)

vars == <<active_analyses, files, threads, model, handler, resp, scope>>

(***************************************************************************)
(* Bounds of the model.  A run is in one of five scopes: "jobs" follows     *)
(* MaxIds jobs running concurrently on few inputs (a one-sample video, a   *)
(* provider that fails or hangs, a detector that answers or fails);        *)
(* "pipeline" follows one job through every branch of the handlers, the    *)
(* resolver and the worker; "sampler" follows one job over many frame      *)
(* counts, on a path of 20 and on a path of 50 points; "classifier" one    *)
(* job over many detection sets and draws; "resolver" one job over many    *)
(* sizes of the geometry the providers return.                             *)
(***************************************************************************)
MaxIds == 2

Scopes == {"jobs", "pipeline", "sampler", "classifier", "resolver"}

Wide == scope = "pipeline"

Ids == IF scope = "jobs" THEN 1..MaxIds ELSE {1}

\* The id of a response that names no job: a value outside Ids.
NoId == MaxIds + 1

\* Frame counts a video may report (cv2.CAP_PROP_FRAME_COUNT).
FrameCounts ==
    CASE scope = "pipeline" -> {0, 12, 25}
      [] scope = "sampler" ->
           {0, 1, 9, 10, 11, 19, 20, 25, 100, 185, 190, 195, 1099, 1100, 1105,
            2000, 2099, 2100, 2310}
      [] OTHER -> {12}

\* Frame rates a video may report (cv2.CAP_PROP_FPS).
FpsValues == IF Wide THEN {0, 30} ELSE {30}

\* Point counts of a geometry returned by a provider.
RawCountsIn(sc) ==
    CASE sc = "pipeline" -> {0, 1, 2, 51}
      [] sc = "resolver" -> {0, 1, 2, 5, 9, 10, 11, 49, 50, 51, 52, 75, 99, 120}
      [] sc = "sampler" -> {120}
      [] OTHER -> {0}

RawCounts == RawCountsIn(scope)

\* Values of np.random.random(), in thousandths.
RandVals ==
    CASE scope = "pipeline" -> {0, 999}
      [] scope = "classifier" -> {0, 500, 999}
      [] OTHER -> {0}

\* Detections of one frame: the boxes of the detector's result, each with its
\* class id and its confidence in hundredths.
DetectionSets ==
    CASE scope = "pipeline" ->
           { << >>,
             << [cls |-> 3, conf |-> 90] >>,
             << [cls |-> 0, conf |-> 5] >> }
      [] scope = "classifier" ->
           { << >>,
             << [cls |-> 0, conf |-> 5] >>,
             << [cls |-> 1, conf |-> 70] >>,
             << [cls |-> 2, conf |-> 80] >>,
             << [cls |-> 3, conf |-> 90] >>,
             << [cls |-> 3, conf |-> 5] >>,
             << [cls |-> 4, conf |-> 9] >>,
             << [cls |-> 4, conf |-> 10] >>,
             << [cls |-> 0, conf |-> 95], [cls |-> 3, conf |-> 20] >>,
             << [cls |-> 2, conf |-> 60], [cls |-> 4, conf |-> 99] >>,
             << [cls |-> 3, conf |-> 8], [cls |-> 2, conf |-> 85] >>,
             << [cls |-> 0, conf |-> 4], [cls |-> 1, conf |-> 6] >>,
             << [cls |-> 7, conf |-> 50] >> }
      [] OTHER -> { << [cls |-> 3, conf |-> 90] >> }

\* Shapes of the bounding box of a place-search result.
BoxShapesIn(sc) ==
    IF sc = "pipeline" THEN {"none", "wide", "tall", "malformed"} ELSE {"none"}

BoxShapes == BoxShapesIn(scope)

\* Whether a place-search result carries its lat and lon fields.
PointPresentIn(sc) == IF sc = "pipeline" THEN BOOLEAN ELSE {FALSE}

PointPresent == PointPresentIn(scope)

\* Whether generate_report succeeds.
ReportOutcomes == IF Wide THEN BOOLEAN ELSE {TRUE}

\* Whether the result file can be opened for writing.
SaveOutcomes == IF Wide THEN BOOLEAN ELSE {TRUE}

Min(a, b) == IF a <= b THEN a ELSE b

Max(a, b) == IF a >= b THEN a ELSE b

(***************************************************************************)
(* The Coordinate Resolver.  A coordinate is <<source, pos>>: the point of *)
(* the source's polyline at parameter pos/19 of its raw point index, so    *)
(* raw point k is <<source, 19*k>> and a point interpolated between raw    *)
(* points k and k+1 has 19*k < pos < 19*(k+1).                             *)
(***************************************************************************)
RawPoint(src, k) == <<src, 19 * k>>

RawGeometry(src, n) == [k \in 1..n |-> RawPoint(src, k - 1)]

\* A resampling that keeps the first 50 points (coordinates[:50]).
LinspaceIndex_first(n, k) == k

\* np.round(np.linspace(0, n - 1, 50)).astype(int): the k-th of 50 evenly
\* spaced values in [0, n-1], rounded to nearest (a tie k*(n-1)/49 = m + 1/2
\* is impossible: 2*k*(n-1) is even and 49*(2*m+1) is odd).
LinspaceIndex(n, k) == (2 * k * (n - 1) + 49) \div 98

\* A geometry of more than 50 points kept whole: the limit is not applied.
SampleEvenly_keep_all(coordinates) == coordinates

\* Lines 309-310 and 398-399.
SampleEvenly(coordinates) ==
    [k \in 1..50 |-> coordinates[LinspaceIndex(Len(coordinates), k - 1) + 1]]

\* np.interp over t = linspace(0, 1, n) at t_new = linspace(0, 1, 20): the
\* i-th new point lies at raw index position i*(n-1)/19.
Interpolate(src, n) == [i \in 1..20 |-> <<src, (i - 1) * (n - 1)>>]

\* Lines 306-325: more than 50 points are sampled down to 50, 1..9 points are
\* interpolated to 20.
NormalizeTier1(src, n) ==
    IF n > 50 THEN SampleEvenly(RawGeometry(src, n))
    ELSE IF n < 10 /\ n > 0 THEN Interpolate(src, n)
    ELSE RawGeometry(src, n)

\* Lines 395-399: only the upper limit is applied in the fallback.
NormalizeTier2(src, n) ==
    IF n > 50 THEN SampleEvenly(RawGeometry(src, n))
    ELSE RawGeometry(src, n)

SyntheticLine(src) == [i \in 1..20 |-> <<src, 19 * (i - 1)>>]

\* A default path one point short (range(19)).
generate_default_coordinates_short == [i \in 1..19 |-> <<"default", 19 * (i - 1)>>]

\* Lines 456-489.
generate_default_coordinates == SyntheticLine("default")

\* What a resolver step hands on: "return" a path to the caller, go on to the
\* "overpass" query, call the "fallback" search, or "raise" an exception.
Outcome(tag, coords) == [tag |-> tag, coords |-> coords]

NominatimResponsesIn(sc) ==
    CASE sc = "pipeline" ->
           {"hang", "neterr", "non200", "empty", "badjson", "nolat", "ok"}
      [] sc = "resolver" -> {"hang", "neterr", "non200", "ok"}
      [] sc = "sampler" -> {"hang", "neterr", "ok"}
      [] OTHER -> {"hang", "neterr"}

NominatimResponses == NominatimResponsesIn(scope)

\* Lines 256-264 of fetch_road_coordinates, inside its try.
NominatimBody(r) ==
    CASE r \in {"neterr", "badjson", "nolat"} -> Outcome("raise", << >>)
      [] r \in {"non200", "empty"} -> Outcome("fallback", << >>)
      [] OTHER -> Outcome("overpass", << >>)

OverpassResponsesIn(sc) ==
    [kind : {"hang", "neterr", "non200", "badjson", "noelements"},
     n : {0}, malformed : {FALSE}]
    \cup [kind : {"elements"}, n : RawCountsIn(sc), malformed : BOOLEAN]

OverpassResponses == OverpassResponsesIn(scope)

\* Lines 285-333 of fetch_road_coordinates, inside its try.
OverpassBody(r) ==
    CASE r.kind \in {"neterr", "badjson"} -> Outcome("raise", << >>)
      [] r.kind \in {"non200", "noelements"} -> Outcome("fallback", << >>)
      [] OTHER ->
           IF r.malformed /\ r.n > 0 THEN Outcome("raise", << >>)
           ELSE IF r.n > 0 THEN Outcome("return", NormalizeTier1("overpass", r.n))
           ELSE Outcome("fallback", << >>)

GeoTypes == {"LineString", "MultiLineString", "Polygon"}

FallbackResponsesIn(sc) ==
    [kind : {"hang", "neterr", "non200", "empty", "badjson"},
     geojson : {"none"}, n : {0}, malformed : {FALSE},
     bbox : {"none"}, latlon : {FALSE}]
    \cup [kind : {"result"},
          geojson : GeoTypes \cup {"none", "Point"}, n : RawCountsIn(sc),
          malformed : BOOLEAN,
          bbox : BoxShapesIn(sc), latlon : PointPresentIn(sc)]

FallbackResponses == FallbackResponsesIn(scope)

\* Lines 359-450 of fallback_road_search, inside its try.
FallbackBody(r) ==
    CASE r.kind \in {"neterr", "badjson"} -> Outcome("raise", << >>)
      [] r.kind \in {"non200", "empty"} ->
           Outcome("return", generate_default_coordinates)
      [] OTHER ->
           IF r.geojson \in GeoTypes /\ r.malformed
             THEN Outcome("raise", << >>)
           ELSE IF r.geojson \in GeoTypes /\ r.n > 0
             THEN Outcome("return", NormalizeTier2("geojson", r.n))
           ELSE IF r.bbox = "malformed" THEN Outcome("raise", << >>)
           ELSE IF r.bbox = "wide"
             THEN Outcome("return", SyntheticLine("bbox_east_west"))
           ELSE IF r.bbox = "tall"
             THEN Outcome("return", SyntheticLine("bbox_north_south"))
           ELSE IF r.latlon THEN Outcome("return", SyntheticLine("around"))
           ELSE Outcome("raise", << >>)

\* Lines 343 and 452-454: the try/except of fallback_road_search.
fallback_road_search(r) ==
    IF FallbackBody(r).tag = "raise"
      THEN Outcome("return", generate_default_coordinates)
      ELSE FallbackBody(r)

\* fetch_road_coordinates without its except clause: the exception leaves it.
fetch_road_coordinates_no_except(o) == o

\* Lines 240 and 335-337: the try/except of fetch_road_coordinates.
fetch_road_coordinates(o) ==
    IF o.tag = "raise"
      THEN Outcome("return", generate_default_coordinates)
      ELSE o

(***************************************************************************)
(* The Frame Sampler and the Detection Classifier of process_video.        *)
(***************************************************************************)
\* A sampler that takes every 10th frame whatever the length of the video.
SampleRate_fixed(frame_count) == 10

\* Line 722: int(frame_count / 100) is the integer quotient.
SampleRate(frame_count) == Max(10, frame_count \div 100)

\* A plan that counts the frames only, whatever the length of the path.
MaxSegments_frames_only(coords, frame_count) ==
    frame_count \div SampleRate(frame_count)

\* Line 728.
MaxSegments(coords, frame_count) ==
    Min(Len(coords) - 1, frame_count \div SampleRate(frame_count))

\* Line 828 computes (current_frame / frame_count) * 100 in IEEE-754 doubles
\* and truncates: the quotient is rounded, and the product can fall just below
\* the integer the exact value current_frame * 100 / frame_count reaches.
\* These are the pairs <<current_frame, frame_count>>, among the frame counts
\* of the model and the multiples of their sample rate, where int() of the
\* double is one less than the exact floor (319/1100*100 is 28.999999999999996).
RoundedBelow ==
    {<<319, 1100>>, <<627, 1100>>, <<638, 1100>>, <<580, 2000>>,
     <<1140, 2000>>, <<1160, 2000>>, <<609, 2100>>, <<1197, 2100>>, <<1218, 2100>>}

\* Line 828: int((current_frame / frame_count) * 100).
Percent(current_frame, frame_count) ==
    (current_frame * 100) \div frame_count
      - (IF <<current_frame, frame_count>> \in RoundedBelow THEN 1 ELSE 0)

\* A progress computed from the frames that remain.
Progress_remaining(current_frame, frame_count) ==
    Min(99, ((frame_count - current_frame) * 100) \div frame_count)

\* Line 828.
Progress(current_frame, frame_count) ==
    Min(99, Percent(current_frame, frame_count))

Classes(boxes) == {boxes[i].cls : i \in 1..Len(boxes)}

\* A classifier whose override applies below 0.7 instead of 0.6.
Classify_override_below_07(boxes, r1, r2, choice) ==
    LET rule ==
          IF Len(boxes) > 0
            THEN IF 3 \in Classes(boxes) \/ 4 \in Classes(boxes)
                   THEN [condition |-> "bad", confidence |-> Max(0, 8000 + 2 * r1)]
                 ELSE IF 2 \in Classes(boxes)
                   THEN [condition |-> "fair", confidence |-> Max(0, 7000 + 2 * r1)]
                 ELSE [condition |-> "fair", confidence |-> Max(0, 6000 + 3 * r1)]
            ELSE [condition |-> "good", confidence |-> 0]
    IN  IF rule.confidence < 7000
          THEN [condition |-> choice, confidence |-> 7000 + 3 * r2]
          ELSE rule

\* A classifier that looks for alligator cracking before potholes and rutting.
Classify_alligator_first(boxes, r1, r2, choice) ==
    LET rule ==
          IF Len(boxes) > 0
            THEN IF 2 \in Classes(boxes)
                   THEN [condition |-> "fair", confidence |-> Max(0, 7000 + 2 * r1)]
                 ELSE IF 3 \in Classes(boxes) \/ 4 \in Classes(boxes)
                   THEN [condition |-> "bad", confidence |-> Max(0, 8000 + 2 * r1)]
                 ELSE [condition |-> "fair", confidence |-> Max(0, 6000 + 3 * r1)]
            ELSE [condition |-> "good", confidence |-> 0]
    IN  IF rule.confidence < 6000
          THEN [condition |-> choice, confidence |-> 7000 + 3 * r2]
          ELSE rule

\* A classifier whose rule for the other defects draws from 0.5 upwards.
Classify_other_from_05(boxes, r1, r2, choice) ==
    LET rule ==
          IF Len(boxes) > 0
            THEN IF 3 \in Classes(boxes) \/ 4 \in Classes(boxes)
                   THEN [condition |-> "bad", confidence |-> Max(0, 8000 + 2 * r1)]
                 ELSE IF 2 \in Classes(boxes)
                   THEN [condition |-> "fair", confidence |-> Max(0, 7000 + 2 * r1)]
                 ELSE [condition |-> "fair", confidence |-> Max(0, 5000 + 4 * r1)]
            ELSE [condition |-> "good", confidence |-> 0]
    IN  IF rule.confidence < 6000
          THEN [condition |-> choice, confidence |-> 7000 + 3 * r2]
          ELSE rule

\* Lines 747-794.  r1 is the draw of the rule that applies, r2 and choice the
\* draws of the override; confidences are in ten-thousandths.
Classify(boxes, r1, r2, choice) ==
    LET rule ==
          IF Len(boxes) > 0
            THEN IF 3 \in Classes(boxes) \/ 4 \in Classes(boxes)
                   THEN [condition |-> "bad", confidence |-> Max(0, 8000 + 2 * r1)]
                 ELSE IF 2 \in Classes(boxes)
                   THEN [condition |-> "fair", confidence |-> Max(0, 7000 + 2 * r1)]
                 ELSE [condition |-> "fair", confidence |-> Max(0, 6000 + 3 * r1)]
            ELSE [condition |-> "good", confidence |-> 0]
    IN  IF rule.confidence < 6000
          THEN [condition |-> choice, confidence |-> 7000 + 3 * r2]
          ELSE rule

\* Line 794: the conditions np.random.choice draws from.
Conditions == {"good", "fair", "bad"}

\* Lines 743-794 on the frames of the scope: the boxes the detector returns
\* and the verdict the classifier reaches on them.
Analysed ==
    {[boxes |-> boxes, verdict |-> Classify(boxes, r1, r2, choice)] :
       boxes \in DetectionSets, r1 \in RandVals, r2 \in RandVals,
       choice \in Conditions}

\* Line 811: f'segment-{segment_id}'.
SegmentId(segment_id) == <<"segment-", segment_id>>

\* A segment that ends where it starts.
Segment_same_point(coords, segment_id, verdict) ==
    [id |-> SegmentId(segment_id),
     startCoordinates |-> coords[segment_id + 1],
     endCoordinates |-> coords[segment_id + 1],
     condition |-> verdict.condition,
     confidence |-> verdict.confidence]

\* Lines 806-822.
Segment(coords, segment_id, verdict) ==
    [id |-> SegmentId(segment_id),
     startCoordinates |-> coords[segment_id + 1],
     endCoordinates |-> coords[segment_id + 2],
     condition |-> verdict.condition,
     confidence |-> verdict.confidence]

(***************************************************************************)
(* Values of the state.                                                    *)
(***************************************************************************)

NoRecord == [status |-> "absent", progress |-> 0, error |-> "None",
             result_path |-> FALSE, report_path |-> FALSE,
             video_name |-> "None"]

NoFile == [state |-> "none", data |-> << >>]

\* fps is -1 until line 705 has read the frame rate.
NoThread == [kind |-> "none", pc |-> "none", fps |-> -1, frame_count |-> 0,
             road_coordinates |-> << >>, current_frame |-> 0,
             segment_id |-> 0, max_segments |-> 0, road_segments |-> << >>,
             boxes |-> << >>, raw_count |-> 0, answered |-> FALSE,
             exc |-> "None"]

NoRequest ==
    [video |-> FALSE, filename |-> "", road_name |-> "", road_location |-> "",
     save_ok |-> FALSE]

Idle == [op |-> "idle", id |-> NoId, request |-> NoRequest]

NoResponse == [op |-> "none", id |-> NoId, code |-> 0, status |-> "None",
               progress |-> 0, error |-> "None", payload |-> << >>,
               request |-> NoRequest]

Known(id) == active_analyses[id] # NoRecord

\* Lines 70-82: the module is imported; the model loads or is left None.
Init ==
    /\ scope \in Scopes
    /\ active_analyses = [id \in Ids |-> NoRecord]
    /\ files = [id \in Ids |-> NoFile]
    /\ threads = [id \in Ids |-> NoThread]
    /\ model \in IF Wide THEN {"YOLO", "None"} ELSE {"YOLO"}
    /\ handler = Idle
    /\ resp = NoResponse

Respond(op, id, code) == [NoResponse EXCEPT !.op = op, !.id = id, !.code = code]

(***************************************************************************)
(* upload_video (submit).  The handler validates the request, saves the    *)
(* video and stores the job record (lines 614-663), then starts the worker *)
(* thread and answers (lines 665-678).                                     *)
(***************************************************************************)
ValidRequest ==
    [video |-> TRUE, filename |-> "road.mp4", road_name |-> "MG Road",
     road_location |-> "Bangalore", save_ok |-> TRUE]

\* The requests a caller sends: a valid one, and ones with a part missing or
\* empty, or whose video cannot be saved.
Requests ==
    IF Wide
      THEN { ValidRequest,
             [ValidRequest EXCEPT !.video = FALSE, !.filename = ""],
             [ValidRequest EXCEPT !.filename = ""],
             [ValidRequest EXCEPT !.road_name = ""],
             [ValidRequest EXCEPT !.road_location = ""],
             [ValidRequest EXCEPT !.road_name = "", !.road_location = ""],
             [ValidRequest EXCEPT !.save_ok = FALSE] }
      ELSE { ValidRequest, [ValidRequest EXCEPT !.road_location = ""] }

\* The validation without the check of the road location.
ValidationError_no_location(req) ==
    \/ ~req.video
    \/ req.filename = ""
    \/ req.road_name = ""

\* Lines 614-641: the request is rejected with status 400.
ValidationError(req) ==
    \/ ~req.video
    \/ req.filename = ""
    \/ req.road_name = ""
    \/ req.road_location = ""

\* Lines 655-663.
InitialRecord(req) ==
    [status |-> "processing", progress |-> 0, error |-> "None",
     result_path |-> FALSE, report_path |-> FALSE,
     video_name |-> req.filename]

\* Lines 617-620, 625-628, 638-641: a validation error answers 400; an
\* exception while saving the video answers 500 (lines 680-685).
RejectCode(req) == IF ValidationError(req) THEN 400 ELSE 500

UploadReject ==
    /\ handler = Idle
    /\ \E req \in Requests :
         /\ ValidationError(req) \/ ~req.save_ok
         /\ resp' = [Respond("upload", NoId, RejectCode(req)) EXCEPT !.request = req]
    /\ UNCHANGED <<active_analyses, files, threads, model, handler, scope>>

\* An id generator that hands out an id again: the record of the earlier job
\* is overwritten.
UploadRegister_reused_id(id) ==
    /\ handler = Idle
    /\ \E req \in Requests :
         /\ ~ValidationError(req)
         /\ req.save_ok
         /\ active_analyses' = [active_analyses EXCEPT ![id] = InitialRecord(req)]
         /\ handler' = [op |-> "upload", id |-> id, request |-> req]
    /\ resp' = NoResponse
    /\ UNCHANGED <<files, threads, model, scope>>

\* The thread started before the record is stored (lines 666-671 moved above
\* line 655).
UploadRegister_thread_first(id) ==
    /\ handler = Idle
    /\ ~Known(id)
    /\ threads[id] = NoThread
    /\ \E req \in Requests :
         /\ ~ValidationError(req)
         /\ req.save_ok
         /\ handler' = [op |-> "upload", id |-> id, request |-> req]
    /\ threads' = [threads EXCEPT ![id] =
                     [NoThread EXCEPT !.kind = "process_video", !.pc = "open"]]
    /\ resp' = NoResponse
    /\ UNCHANGED <<active_analyses, files, model, scope>>

\* uuid.uuid4() (line 644) is an id no record has.
UploadRegister(id) ==
    /\ handler = Idle
    /\ ~Known(id)
    /\ \E req \in Requests :
         /\ ~ValidationError(req)
         /\ req.save_ok
         /\ active_analyses' = [active_analyses EXCEPT ![id] = InitialRecord(req)]
         /\ handler' = [op |-> "upload", id |-> id, request |-> req]
    /\ resp' = NoResponse
    /\ UNCHANGED <<files, threads, model, scope>>

\* The thread process_video starts with: at the top of its try.
NewWorker == [NoThread EXCEPT !.kind = "process_video", !.pc = "open"]

UploadStart ==
    /\ handler.op = "upload"
    /\ threads' = [threads EXCEPT ![handler.id] = NewWorker]
    /\ resp' = [Respond("upload", handler.id, 200) EXCEPT !.request = handler.request]
    /\ handler' = Idle
    /\ UNCHANGED <<active_analyses, files, model, scope>>

(***************************************************************************)
(* analysis_status, analysis_results, download_report.                     *)
(***************************************************************************)
\* Lines 1030-1037.
DummyRecord ==
    [status |-> "processing", progress |-> 10, error |-> "None",
     result_path |-> FALSE, report_path |-> FALSE,
     video_name |-> "dummy_video.mp4"]

NewSimulation == [NoThread EXCEPT !.kind = "simulate_processing", !.pc = "sleep"]

\* Lines 1079-1084.
StatusResponse(id, analysis) ==
    [Respond("status", id, 200) EXCEPT !.status = analysis.status,
                                       !.progress = analysis.progress,
                                       !.error = analysis.error]

\* The dummy record stored without the test of line 1026.
StatusRegistry_unguarded(id) == [active_analyses EXCEPT ![id] = DummyRecord]

\* Lines 1026-1075: what the handler does to the registry.
StatusRegistry(id) ==
    IF ~Known(id)
      THEN [active_analyses EXCEPT ![id] = DummyRecord]
      ELSE active_analyses

\* Line 1075: the thread the handler starts.
StatusThreads(id) ==
    IF ~Known(id)
      THEN [threads EXCEPT ![id] = NewSimulation]
      ELSE threads

analysis_status(id) ==
    /\ handler = Idle
    /\ active_analyses' = StatusRegistry(id)
    /\ threads' = StatusThreads(id)
    /\ resp' = StatusResponse(id, active_analyses'[id])
    /\ UNCHANGED <<files, model, handler, scope>>

\* analysis_results looking for the result file before it looks at the status.
ResultsResponse_file_first(id) ==
    IF ~Known(id) THEN Respond("results", id, 404)
    ELSE IF files[id].state = "full"
      THEN [Respond("results", id, 200) EXCEPT !.payload = files[id].data]
    ELSE IF active_analyses[id].status # "completed"
      THEN [Respond("results", id, 400) EXCEPT !.status = active_analyses[id].status]
    ELSE Respond("results", id, 404)

\* Lines 1090-1120.  A file that is still being written does not parse:
\* json.load raises and Flask answers 500.
ResultsResponse(id) ==
    IF ~Known(id) THEN Respond("results", id, 404)
    ELSE IF active_analyses[id].status # "completed"
      THEN [Respond("results", id, 400) EXCEPT !.status = active_analyses[id].status]
    ELSE IF ~active_analyses[id].result_path \/ files[id].state = "none"
      THEN Respond("results", id, 404)
    ELSE IF files[id].state = "partial" THEN Respond("results", id, 500)
    ELSE [Respond("results", id, 200) EXCEPT !.payload = files[id].data]

analysis_results(id) ==
    /\ handler = Idle
    /\ resp' = ResultsResponse(id)
    /\ UNCHANGED <<active_analyses, files, threads, model, handler, scope>>

\* Lines 1126-1148.  The report file is saved before report_path is stored
\* (lines 1007-1010), so it exists whenever the path is present.
ReportResponse(id) ==
    IF ~Known(id) THEN Respond("report", id, 404)
    ELSE IF active_analyses[id].status # "completed" THEN Respond("report", id, 400)
    ELSE IF ~active_analyses[id].report_path THEN Respond("report", id, 404)
    ELSE Respond("report", id, 200)

download_report(id) ==
    /\ handler = Idle
    /\ resp' = ReportResponse(id)
    /\ UNCHANGED <<active_analyses, files, threads, model, handler, scope>>

(***************************************************************************)
(* process_video: the worker thread of a submitted job.  A step of the     *)
(* thread ends at a blocking call or at a write to shared state.           *)
(***************************************************************************)
SetThread(id, t) == threads' = [threads EXCEPT ![id] = t]

At(id, kind, pc) == threads[id].kind = kind /\ threads[id].pc = pc

\* An exception inside the try of process_video: control moves to line 863.
Raise(t, msg) == [t EXCEPT !.pc = "except", !.exc = msg]

\* Line 731: the loop condition.
LoopPc(t) ==
    IF t.current_frame < t.frame_count /\ t.segment_id < t.max_segments
      THEN "loop" ELSE "save_open"

\* Lines 713-731: the resolver has returned coords.
EnterLoop(t, coords) ==
    LET u == [t EXCEPT !.road_coordinates = coords,
                       !.current_frame = 0,
                       !.segment_id = 0,
                       !.max_segments = MaxSegments(coords, t.frame_count),
                       !.road_segments = << >>]
    IN  [u EXCEPT !.pc = LoopPc(u)]

\* What process_video does with the outcome of a resolver step.
AfterResolver(t, o) ==
    CASE o.tag = "return" -> EnterLoop(t, o.coords)
      [] o.tag = "overpass" -> [t EXCEPT !.pc = "overpass"]
      [] o.tag = "fallback" -> [t EXCEPT !.pc = "fallback"]
      [] OTHER -> Raise(t, "resolver error")

\* Lines 697-703: the video cannot be opened; status is written first.
PvOpenFailed(id) ==
    /\ At(id, "process_video", "open")
    /\ active_analyses' = [active_analyses EXCEPT ![id].status = "failed"]
    /\ SetThread(id, [threads[id] EXCEPT !.pc = "open_failed_error"])
    /\ resp' = NoResponse
    /\ UNCHANGED <<files, model, handler, scope>>

\* Line 702 without the return of line 703: the worker goes on with the video
\* it could not open.
PvOpenFailedError_no_return(id) ==
    /\ At(id, "process_video", "open_failed_error")
    /\ active_analyses' =
         [active_analyses EXCEPT ![id].error = "Failed to open video file"]
    /\ SetThread(id, [threads[id] EXCEPT !.pc = "nominatim"])
    /\ resp' = NoResponse
    /\ UNCHANGED <<files, model, handler, scope>>

\* Line 702.
PvOpenFailedError(id) ==
    /\ At(id, "process_video", "open_failed_error")
    /\ active_analyses' =
         [active_analyses EXCEPT ![id].error = "Failed to open video file"]
    /\ SetThread(id, [threads[id] EXCEPT !.pc = "done"])
    /\ resp' = NoResponse
    /\ UNCHANGED <<files, model, handler, scope>>

\* Lines 705-707 with a duration that is infinite for a frame rate of 0, as
\* in numpy's arithmetic: nothing is raised and the worker goes on.
PvOpened_inf_duration(id) ==
    /\ At(id, "process_video", "open")
    /\ \E fps \in FpsValues, fc \in FrameCounts :
         SetThread(id, [threads[id] EXCEPT !.fps = fps, !.frame_count = fc,
                                           !.pc = "nominatim"])
    /\ resp' = NoResponse
    /\ UNCHANGED <<active_analyses, files, model, handler, scope>>

\* Lines 705-707: the video is open; a frame rate of 0 divides by zero.
PvOpened(id) ==
    /\ At(id, "process_video", "open")
    /\ \E fps \in FpsValues, fc \in FrameCounts :
         SetThread(id,
           IF fps = 0
             THEN Raise([threads[id] EXCEPT !.fps = fps, !.frame_count = fc],
                        "float division by zero")
             ELSE [threads[id] EXCEPT !.fps = fps, !.frame_count = fc,
                                      !.pc = "nominatim"])
    /\ resp' = NoResponse
    /\ UNCHANGED <<active_analyses, files, model, handler, scope>>

\* A provider that never answers: requests.get and requests.post are called
\* without a timeout (lines 256, 285, 359), so the thread stays in the call.
PvHang(id) ==
    /\ threads[id].kind = "process_video"
    /\ threads[id].pc \in {"nominatim", "overpass", "fallback"}
    /\ SetThread(id, [threads[id] EXCEPT !.pc = "blocked"])
    /\ resp' = NoResponse
    /\ UNCHANGED <<active_analyses, files, model, handler, scope>>

\* Lines 256-258, 285-287, 359-361: the provider answered the call with
\* status 200; kind is what came back.
Answered(kind) == kind \notin {"neterr", "non200"}

\* Lines 307 and 397: len(coordinates) of the geometry a provider returned,
\* before it is normalised; 0 when the outcome o is not built from a geometry
\* of n points.
RawCountOf(o, n) ==
    IF o.tag = "return" /\ o.coords[1][1] \in {"overpass", "geojson"} THEN n ELSE 0

\* What a provider call leaves in the worker: whether the provider answered,
\* the size of the geometry it gave, and the outcome fetch_road_coordinates
\* makes of it.
ResolverStep(answered, raw_count, o) ==
    [answered |-> answered, raw_count |-> raw_count, outcome |-> o]

\* The steps the first place search (lines 256-264) can take in each scope.
NominatimSteps ==
    [sc \in Scopes |->
       {ResolverStep(Answered(r), 0, fetch_road_coordinates(NominatimBody(r))) :
          r \in NominatimResponsesIn(sc) \ {"hang"}}]

\* The steps the road query (lines 285-333) can take in each scope.
OverpassSteps ==
    [sc \in Scopes |->
       {ResolverStep(Answered(r.kind), RawCountOf(OverpassBody(r), r.n),
                     fetch_road_coordinates(OverpassBody(r))) :
          r \in {q \in OverpassResponsesIn(sc) : q.kind # "hang"}}]

\* The steps the fallback search (lines 359-450) can take in each scope.
FallbackSteps ==
    [sc \in Scopes |->
       {ResolverStep(Answered(r.kind), RawCountOf(fallback_road_search(r), r.n),
                     fetch_road_coordinates(fallback_road_search(r))) :
          r \in {q \in FallbackResponsesIn(sc) : q.kind # "hang"}}]

\* The worker after a provider call that took step x.
AfterStep(t, x) ==
    AfterResolver([t EXCEPT !.answered = @ \/ x.answered,
                            !.raw_count = x.raw_count],
                  x.outcome)

\* Lines 256-264.
PvNominatim(id) ==
    /\ At(id, "process_video", "nominatim")
    /\ \E x \in NominatimSteps[scope] : SetThread(id, AfterStep(threads[id], x))
    /\ resp' = NoResponse
    /\ UNCHANGED <<active_analyses, files, model, handler, scope>>

\* Lines 285-333.
PvOverpass(id) ==
    /\ At(id, "process_video", "overpass")
    /\ \E x \in OverpassSteps[scope] : SetThread(id, AfterStep(threads[id], x))
    /\ resp' = NoResponse
    /\ UNCHANGED <<active_analyses, files, model, handler, scope>>

\* Lines 260, 289, 333: fallback_road_search, called inside the try of
\* fetch_road_coordinates.
PvFallback(id) ==
    /\ At(id, "process_video", "fallback")
    /\ \E x \in FallbackSteps[scope] : SetThread(id, AfterStep(threads[id], x))
    /\ resp' = NoResponse
    /\ UNCHANGED <<active_analyses, files, model, handler, scope>>

\* A read failure that throws away the segments built so far.
PvReadFailed_discard(id) ==
    /\ At(id, "process_video", "loop")
    /\ SetThread(id, [threads[id] EXCEPT !.pc = "save_open", !.road_segments = << >>])
    /\ resp' = NoResponse
    /\ UNCHANGED <<active_analyses, files, model, handler, scope>>

\* Lines 732-737: the frame cannot be read; the loop is left.
PvReadFailed(id) ==
    /\ At(id, "process_video", "loop")
    /\ SetThread(id, [threads[id] EXCEPT !.pc = "save_open"])
    /\ resp' = NoResponse
    /\ UNCHANGED <<active_analyses, files, model, handler, scope>>

\* A detector failure handled like a read failure: the error is noted and the
\* worker goes on to save what it has.
PvDetectorFailed_partial(id) ==
    /\ At(id, "process_video", "loop")
    /\ SetThread(id, [threads[id] EXCEPT
                        !.pc = "save_open",
                        !.exc = IF model = "None"
                                  THEN "'NoneType' object is not callable"
                                  ELSE "detector error"])
    /\ resp' = NoResponse
    /\ UNCHANGED <<active_analyses, files, model, handler, scope>>

\* Line 743: no model is loaded, or the detector raises.
PvDetectorFailed(id) ==
    /\ At(id, "process_video", "loop")
    /\ SetThread(id, Raise(threads[id],
                           IF model = "None"
                             THEN "'NoneType' object is not callable"
                             ELSE "detector error"))
    /\ resp' = NoResponse
    /\ UNCHANGED <<active_analyses, files, model, handler, scope>>

\* Lines 806-829: one more segment, the cursor advanced.
NextFrame(t, verdict) ==
    IF t.segment_id + 2 > Len(t.road_coordinates)
      THEN Raise(t, "list index out of range")
      ELSE LET u == [t EXCEPT
                       !.road_segments =
                           Append(@, Segment(t.road_coordinates, t.segment_id, verdict)),
                       !.current_frame = @ + SampleRate(t.frame_count),
                       !.segment_id = @ + 1]
           IN  [u EXCEPT !.pc = LoopPc(u)]

\* Lines 732-829: one iteration of the loop on a frame that is read and
\* analysed.
PvFrame(id) ==
    /\ At(id, "process_video", "loop")
    /\ model # "None"
    /\ \E a \in Analysed :
         LET t == NextFrame([threads[id] EXCEPT !.boxes = a.boxes], a.verdict)
         IN  /\ SetThread(id, t)
             /\ active_analyses' =
                  IF t.pc = "except" THEN active_analyses
                  ELSE [active_analyses EXCEPT
                          ![id].progress = Progress(t.current_frame, t.frame_count)]
    /\ resp' = NoResponse
    /\ UNCHANGED <<files, model, handler, scope>>

\* Lines 836-848: the result file is opened for writing.
PvSaveOpen(id) ==
    /\ At(id, "process_video", "save_open")
    /\ TRUE \in SaveOutcomes
    /\ files' = [files EXCEPT ![id] = [state |-> "partial", data |-> << >>]]
    /\ SetThread(id, [threads[id] EXCEPT !.pc = "save_dump"])
    /\ resp' = NoResponse
    /\ UNCHANGED <<active_analyses, model, handler, scope>>

\* Line 848: the result file cannot be opened.
PvSaveFailed(id) ==
    /\ At(id, "process_video", "save_open")
    /\ FALSE \in SaveOutcomes
    /\ SetThread(id, Raise(threads[id], "cannot write result file"))
    /\ resp' = NoResponse
    /\ UNCHANGED <<active_analyses, files, model, handler, scope>>

\* Line 849.
PvSaveDump(id) ==
    /\ At(id, "process_video", "save_dump")
    /\ files' = [files EXCEPT
                   ![id] = [state |-> "full", data |-> threads[id].road_segments]]
    /\ SetThread(id, [threads[id] EXCEPT !.pc = "report"])
    /\ resp' = NoResponse
    /\ UNCHANGED <<active_analyses, model, handler, scope>>

\* Lines 868-1014: generate_report stores report_path after saving the file,
\* or logs its error and returns.
generate_report(id, ok) ==
    IF ok THEN [active_analyses EXCEPT ![id].report_path = TRUE]
    ELSE active_analyses

\* Line 852.
PvReport(id) ==
    /\ At(id, "process_video", "report")
    /\ \E ok \in ReportOutcomes : active_analyses' = generate_report(id, ok)
    /\ SetThread(id, [threads[id] EXCEPT !.pc = "set_completed"])
    /\ resp' = NoResponse
    /\ UNCHANGED <<files, model, handler, scope>>

\* Line 855.
PvSetCompleted(id) ==
    /\ At(id, "process_video", "set_completed")
    /\ active_analyses' = [active_analyses EXCEPT ![id].status = "completed"]
    /\ SetThread(id, [threads[id] EXCEPT !.pc = "set_result_path"])
    /\ resp' = NoResponse
    /\ UNCHANGED <<files, model, handler, scope>>

\* An exception after the status is written (lines 856-861 raising): control
\* moves to the except clause.
PvSetResultPath_raise(id) ==
    /\ At(id, "process_video", "set_result_path")
    /\ SetThread(id, Raise(threads[id], "cannot release the video"))
    /\ resp' = NoResponse
    /\ UNCHANGED <<active_analyses, files, model, handler, scope>>

\* Lines 856-861.
PvSetResultPath(id) ==
    /\ At(id, "process_video", "set_result_path")
    /\ active_analyses' = [active_analyses EXCEPT ![id].result_path = TRUE]
    /\ SetThread(id, [threads[id] EXCEPT !.pc = "done"])
    /\ resp' = NoResponse
    /\ UNCHANGED <<files, model, handler, scope>>

\* Lines 863-865.
PvExcept(id) ==
    /\ At(id, "process_video", "except")
    /\ active_analyses' = [active_analyses EXCEPT ![id].status = "failed"]
    /\ SetThread(id, [threads[id] EXCEPT !.pc = "except_error"])
    /\ resp' = NoResponse
    /\ UNCHANGED <<files, model, handler, scope>>

\* Line 866.
PvExceptError(id) ==
    /\ At(id, "process_video", "except_error")
    /\ active_analyses' = [active_analyses EXCEPT ![id].error = threads[id].exc]
    /\ SetThread(id, [threads[id] EXCEPT !.pc = "done"])
    /\ resp' = NoResponse
    /\ UNCHANGED <<files, model, handler, scope>>

process_video(id) ==
    \/ PvOpenFailed(id)
    \/ PvOpenFailedError(id)
    \/ PvOpened(id)
    \/ PvNominatim(id)
    \/ PvOverpass(id)
    \/ PvFallback(id)
    \/ PvReadFailed(id)
    \/ PvDetectorFailed(id)
    \/ PvFrame(id)
    \/ PvSaveOpen(id)
    \/ PvSaveFailed(id)
    \/ PvSaveDump(id)
    \/ PvReport(id)
    \/ PvSetCompleted(id)
    \/ PvSetResultPath(id)
    \/ PvExcept(id)
    \/ PvExceptError(id)

(***************************************************************************)
(* simulate_processing: the thread analysis_status starts for an id it     *)
(* does not know (lines 1040-1073).                                        *)
(***************************************************************************)
\* Lines 1052-1066.
DummySegments ==
    << [id |-> SegmentId(0), startCoordinates |-> <<"dummy", 0>>,
        endCoordinates |-> <<"dummy", 19>>,
        condition |-> "good", confidence |-> 9000] >>

\* Lines 1041-1043.
SimCompleted(id) ==
    /\ At(id, "simulate_processing", "sleep")
    /\ active_analyses' = [active_analyses EXCEPT ![id].status = "completed"]
    /\ SetThread(id, [threads[id] EXCEPT !.pc = "set_result_path"])
    /\ resp' = NoResponse
    /\ UNCHANGED <<files, model, handler, scope>>

\* Line 1044.
SimResultPath(id) ==
    /\ At(id, "simulate_processing", "set_result_path")
    /\ active_analyses' = [active_analyses EXCEPT ![id].result_path = TRUE]
    /\ SetThread(id, [threads[id] EXCEPT !.pc = "save_open"])
    /\ resp' = NoResponse
    /\ UNCHANGED <<files, model, handler, scope>>

\* Lines 1068-1069.
SimSaveOpen(id) ==
    /\ At(id, "simulate_processing", "save_open")
    /\ files' = [files EXCEPT ![id] = [state |-> "partial", data |-> << >>]]
    /\ SetThread(id, [threads[id] EXCEPT !.pc = "save_dump"])
    /\ resp' = NoResponse
    /\ UNCHANGED <<active_analyses, model, handler, scope>>

\* Line 1070.
SimSaveDump(id) ==
    /\ At(id, "simulate_processing", "save_dump")
    /\ files' = [files EXCEPT ![id] = [state |-> "full", data |-> DummySegments]]
    /\ SetThread(id, [threads[id] EXCEPT !.pc = "report"])
    /\ resp' = NoResponse
    /\ UNCHANGED <<active_analyses, model, handler, scope>>

\* Line 1073.
SimReport(id) ==
    /\ At(id, "simulate_processing", "report")
    /\ \E ok \in ReportOutcomes : active_analyses' = generate_report(id, ok)
    /\ SetThread(id, [threads[id] EXCEPT !.pc = "done"])
    /\ resp' = NoResponse
    /\ UNCHANGED <<files, model, handler, scope>>

simulate_processing(id) ==
    \/ SimCompleted(id)
    \/ SimResultPath(id)
    \/ SimSaveOpen(id)
    \/ SimSaveDump(id)
    \/ SimReport(id)

(***************************************************************************)
(* The system.                                                             *)
(***************************************************************************)
Next ==
    \/ UploadReject
    \/ UploadStart
    \/ \E id \in Ids : UploadRegister(id)
    \/ \E id \in Ids : analysis_status(id)
    \/ \E id \in Ids : analysis_results(id)
    \/ \E id \in Ids : download_report(id)
    \/ \E id \in Ids : PvOpenFailed(id)
    \/ \E id \in Ids : PvOpenFailedError(id)
    \/ \E id \in Ids : PvOpened(id)
    \/ \E id \in Ids : PvHang(id)
    \/ \E id \in Ids : PvNominatim(id)
    \/ \E id \in Ids : PvOverpass(id)
    \/ \E id \in Ids : PvFallback(id)
    \/ \E id \in Ids : PvReadFailed(id)
    \/ \E id \in Ids : PvDetectorFailed(id)
    \/ \E id \in Ids : PvFrame(id)
    \/ \E id \in Ids : PvSaveOpen(id)
    \/ \E id \in Ids : PvSaveFailed(id)
    \/ \E id \in Ids : PvSaveDump(id)
    \/ \E id \in Ids : PvReport(id)
    \/ \E id \in Ids : PvSetCompleted(id)
    \/ \E id \in Ids : PvSetResultPath(id)
    \/ \E id \in Ids : PvExcept(id)
    \/ \E id \in Ids : PvExceptError(id)
    \/ \E id \in Ids : SimCompleted(id)
    \/ \E id \in Ids : SimResultPath(id)
    \/ \E id \in Ids : SimSaveOpen(id)
    \/ \E id \in Ids : SimSaveDump(id)
    \/ \E id \in Ids : SimReport(id)

Spec == Init /\ [][Next]_vars

\* The scheduler runs every thread that can take a step, and a handler that
\* has started runs to its end.  A thread inside a call that never returns
\* has no step to take.
Fairness ==
    /\ WF_vars(UploadStart)
    /\ \A id \in 1..MaxIds : WF_vars(id \in Ids /\ process_video(id))
    /\ \A id \in 1..MaxIds : WF_vars(id \in Ids /\ simulate_processing(id))

FairSpec == Spec /\ Fairness

(***************************************************************************)
(* The claims.                                                             *)
(***************************************************************************)
Submitted(id) == id \in Ids /\ threads[id].kind = "process_video"

\* C1: for a job created by submit, a result call that finds the status
\* completed returns the job's result (code 200 with the job's segments): no
\* state has status completed while the result is not available.
C1_CompletedJobHasResult ==
    (resp.op = "results" /\ Submitted(resp.id)
       /\ active_analyses[resp.id].status = "completed")
    => (resp.code = 200 /\ resp.payload = threads[resp.id].road_segments)

\* C2: job status is irreversible: a record whose status is completed or
\* failed never shows status processing afterwards.
C2_StatusIrreversible ==
    [][\A id \in Ids :
         active_analyses[id].status \in {"completed", "failed"}
         => active_analyses'[id].status # "processing"]_vars

\* Witness of C2: a status call reports a finished job as finished.
C2_Witness ==
    /\ resp.op = "status"
    /\ resp.status \in {"completed", "failed"}
    /\ threads[resp.id].pc = "done"

\* C3: status(jobId) is read-only: a status call leaves the registry as it was
\* and starts no background thread, whether the id is known or not.
C3_StatusReadOnly ==
    [][resp'.op = "status"
       => (active_analyses' = active_analyses /\ threads' = threads)]_vars

\* C4: result(x) for an id x that no submit returned fails with NotFound (404),
\* never with NotReady (400) and never with a payload (200).
C4_UnknownIdNotFound ==
    (resp.op = "results" /\ ~Submitted(resp.id)) => resp.code = 404

\* C5: result(jobId) on a known job whose status is not completed fails with
\* NotReady (400) and no payload, whether or not the result file exists, and
\* leaves the registry unchanged.
C5_NotReady ==
    [][(resp'.op = "results" /\ Known(resp'.id)
          /\ active_analyses[resp'.id].status # "completed")
       => (resp'.code = 400 /\ resp'.payload = << >>
             /\ active_analyses' = active_analyses)]_vars

\* Witness of C5: a result call answered NotReady for a job still processing
\* whose result file is already written.
C5_Witness ==
    /\ resp.op = "results"
    /\ resp.code = 400
    /\ Submitted(resp.id)
    /\ active_analyses[resp.id].status = "processing"
    /\ files[resp.id].state = "full"

\* C6: in every observable state the error field of a record is present if and
\* only if its status is failed.
C6_ErrorIffFailed ==
    \A id \in Ids :
      Known(id)
      => (active_analyses[id].error # "None" <=> active_analyses[id].status = "failed")

\* A request with no video, an empty filename, an empty road name or an empty
\* road location.
Incomplete(req) ==
    ~req.video \/ req.filename = "" \/ req.road_name = "" \/ req.road_location = ""

\* C7: a submit with a missing or empty required field is rejected at once with
\* a validation error (400): it is never registered, the registry is unchanged
\* and no worker is started.
C7_RejectedSynchronously ==
    [][/\ handler'.op = "upload" => ~Incomplete(handler'.request)
       /\ (resp'.op = "upload" /\ Incomplete(resp'.request))
          => (resp'.code = 400 /\ resp'.id = NoId
                /\ active_analyses' = active_analyses
                /\ threads' = threads
                /\ handler' = Idle)]_vars

\* Witness of C7: a request with an empty road location is answered 400 while a
\* job is registered.
C7_Witness ==
    /\ resp.op = "upload"
    /\ resp.code = 400
    /\ resp.request.road_location = ""
    /\ \E id \in Ids : Known(id)

\* C8: an accepted submit stores the record with status processing and
\* progress 0 before its worker is started; it answers with the new id while
\* the worker has not yet run; it starts exactly one worker, for its own id;
\* and no worker exists for an id whose record is missing.
C8_AcceptedSubmit ==
    [][/\ \A id \in Ids : threads'[id].kind = "process_video" => Known(id)'
       /\ handler'.op = "upload"
          => (/\ active_analyses'[handler'.id].status = "processing"
              /\ active_analyses'[handler'.id].progress = 0
              /\ threads'[handler'.id] = NoThread)
       /\ (resp'.op = "upload" /\ resp'.code = 200)
          => (/\ threads[resp'.id].kind = "none"
              /\ threads'[resp'.id].kind = "process_video"
              /\ threads'[resp'.id].pc = "open"
              /\ \A other \in Ids \ {resp'.id} : threads'[other] = threads[other]
              /\ active_analyses'[resp'.id].status = "processing"
              /\ active_analyses'[resp'.id].progress = 0
              /\ resp'.id = handler.id
              /\ handler' = Idle)]_vars

\* Witness of C8: a submit is answered with its job id while another job's
\* worker is running.
C8_Witness ==
    /\ resp.op = "upload"
    /\ resp.code = 200
    /\ threads[resp.id].pc = "open"
    /\ \E other \in Ids \ {resp.id} :
         threads[other].kind = "process_video" /\ threads[other].pc = "loop"

\* C9: under fair scheduling every accepted job eventually leaves status
\* processing, even when a geocoding provider never answers.
C9_JobsLeaveProcessing ==
    \A id \in 1..MaxIds :
      (Submitted(id)) ~> (id \in Ids /\ active_analyses[id].status # "processing")

ResolverPcs == {"nominatim", "overpass", "fallback"}

\* C10: the resolver never fails outward: whatever the providers answer
\* (network error, non-200, empty result, malformed or missing fields), the
\* worker comes out of the resolver with a path and no exception.
C10_ResolverNeverFails ==
    [][\A id \in Ids :
         (/\ threads[id].kind = "process_video"
          /\ threads[id].pc \in ResolverPcs
          /\ threads'[id].pc \notin ResolverPcs \cup {"blocked"})
         => (/\ threads'[id].pc \in {"loop", "save_open"}
             /\ threads'[id].exc = "None"
             /\ Len(threads'[id].road_coordinates) >= 1)]_vars

\* Witness of C10: a worker runs its loop on the synthetic default path, which
\* the resolver returns after a provider has failed.
C10_Witness ==
    \E id \in Ids :
      /\ threads[id].kind = "process_video"
      /\ threads[id].pc = "loop"
      /\ threads[id].road_coordinates = generate_default_coordinates

\* The worker has its path: it is in the loop or past it.
HasPath(id) ==
    /\ id \in Ids
    /\ threads[id].kind = "process_video"
    /\ threads[id].pc \in {"loop", "save_open", "save_dump", "report",
                           "set_completed", "set_result_path"}

\* C11: every path the resolver returns, whichever tier or branch produced it
\* and whatever the number of points of the provider's geometry, has between 2
\* and 50 points.
C11_PathLength ==
    \A id \in Ids :
      HasPath(id)
      => (Len(threads[id].road_coordinates) >= 2
            /\ Len(threads[id].road_coordinates) <= 50)

\* C12: the tiers are tried in order: a worker that leaves the resolver from
\* tier 1 (the place search or the road query) leaves it with a tier 1 path;
\* the synthetic default path is returned only from tier 2, after tier 1 and
\* tier 2 have both been tried.
C12_TiersInOrder ==
    [][\A id \in Ids :
         (/\ threads[id].kind = "process_video"
          /\ threads[id].pc \in {"nominatim", "overpass"}
          /\ threads'[id].pc \in {"loop", "save_open"})
         => threads'[id].road_coordinates # generate_default_coordinates]_vars

\* max(10, F div 100), written out.
ExpectedRate(F) == IF F \div 100 > 10 THEN F \div 100 ELSE 10

\* C13: the worker uses sampleRate = max(10, F div 100); the frame indices it
\* visits start at 0, are multiples of sampleRate, strictly increase (each
\* visit is one sampleRate after the one before) and are all less than F.
C13_SamplerIndices ==
    [][\A id \in Ids :
         (threads'[id].kind = "process_video" /\ threads'[id].pc = "loop")
         => LET t == threads[id]
                u == threads'[id]
                rate == ExpectedRate(u.frame_count)
            IN  /\ u.current_frame < u.frame_count
                /\ u.current_frame % rate = 0
                /\ t.pc # "loop" => u.current_frame = 0
                /\ (t.pc = "loop" /\ u # t)
                   => (u.current_frame = t.current_frame + rate
                         /\ u.current_frame > t.current_frame)]_vars

\* Witness of C13: the fourth visit of a video of 1105 frames, at index 33.
C13_Witness ==
    \E id \in Ids :
      /\ threads[id].kind = "process_video"
      /\ threads[id].pc = "loop"
      /\ threads[id].frame_count = 1105
      /\ threads[id].current_frame = 33

\* The number of indices 0, rate, 2*rate, ... that are less than F.
PlannedCount(F) ==
    Cardinality({k \in 0..(F \div ExpectedRate(F)) : k * ExpectedRate(F) < F})

\* The worker left its loop because the loop condition was false: no read
\* failed and nothing was raised.
Uninterrupted(id) ==
    /\ threads[id].exc = "None"
    /\ ~(/\ threads[id].current_frame < threads[id].frame_count
         /\ threads[id].segment_id < threads[id].max_segments)

\* C14: for a job with no decode or detector failure, the number of segments in
\* the result is min(len(path) - 1, N), N the number of indices 0, sampleRate,
\* 2*sampleRate, ... below frameCount.
C14_SegmentCount ==
    \A id \in Ids :
      (Submitted(id) /\ files[id].state = "full" /\ Uninterrupted(id))
      => Len(files[id].data)
           = Min(Len(threads[id].road_coordinates) - 1,
                 PlannedCount(threads[id].frame_count))

\* The segments segs are built in order along path: the i-th is named
\* 'segment-i' and runs from path[i] to path[i+1] (i from 0), so that each
\* starts where the one before ends, and there are at most len(path) - 1.
Connected(segs, path) ==
    /\ Len(segs) <= Len(path) - 1 \/ Len(segs) = 0
    /\ \A i \in 1..Len(segs) :
         /\ segs[i].id = <<"segment-", i - 1>>
         /\ segs[i].startCoordinates = path[i]
         /\ segs[i].endCoordinates = path[i + 1]
    /\ \A i \in 1..(Len(segs) - 1) :
         segs[i].endCoordinates = segs[i + 1].startCoordinates

\* C15: the segments of a job are in traversal order and connected, while they
\* are built and in the result, and never more than min(len(path) - 1, number
\* of verdicts), the verdicts being one per frame analysed.
C15_SegmentsConnected ==
    \A id \in Ids :
      Submitted(id)
      => /\ Connected(threads[id].road_segments, threads[id].road_coordinates)
         /\ Len(threads[id].road_segments) <= threads[id].segment_id
         /\ files[id].state = "full"
            => files[id].data = threads[id].road_segments

\* Witness of C15: a result of three segments or more on a path whose points
\* differ.
C15_Witness ==
    \E id \in Ids :
      /\ Submitted(id)
      /\ files[id].state = "full"
      /\ Len(files[id].data) >= 3
      /\ files[id].data[1].startCoordinates # files[id].data[1].endCoordinates

\* The worker of id has analysed a frame in this step and built its segment.
FrameStep(id) ==
    /\ threads[id].kind = "process_video"
    /\ threads[id].pc = "loop"
    /\ Len(threads'[id].road_segments) = Len(threads[id].road_segments) + 1

\* The segment built last.
LastSegment(t) == t.road_segments[Len(t.road_segments)]

\* A Pothole (3) or a Rutting (4) among the boxes.
HasSevereDefect(boxes) == \E i \in 1..Len(boxes) : boxes[i].cls \in {3, 4}

C17_NoDetectionIsGood ==
    [][\A id \in Ids :
         (FrameStep(id) /\ threads'[id].boxes = << >>)
         => /\ LastSegment(threads'[id]).condition = "good"
            /\ LastSegment(threads'[id]).confidence >= 7000
            /\ LastSegment(threads'[id]).confidence < 10000]_vars

\* The detections at or above the confidence threshold 0.1.
AtLeastThreshold(b) == b.conf >= 10

AboveThreshold(boxes) == SelectSeq(boxes, AtLeastThreshold)

\* The verdict of a segment.
VerdictOf(seg) == [condition |-> seg.condition, confidence |-> seg.confidence]

\* C18: in the video pipeline detections below confidence 0.1 are left out of
\* the classification: the verdict of a frame is one the classifier reaches on
\* the frame's detections at or above 0.1, so a frame whose detections are all
\* below 0.1 is judged as a frame with none.
C18_ThresholdApplied ==
    [][\A id \in Ids :
         FrameStep(id)
         => \E r1 \in RandVals, r2 \in RandVals, choice \in Conditions :
              VerdictOf(LastSegment(threads'[id]))
                = Classify(AboveThreshold(threads'[id].boxes), r1, r2, choice)]_vars

\* The worker left its loop at a frame it could not read: the loop condition
\* still holds and nothing was raised.
Truncated(id) ==
    /\ Submitted(id)
    /\ threads[id].pc \in {"save_open", "save_dump", "report", "set_completed",
                           "set_result_path", "done"}
    /\ threads[id].exc = "None"
    /\ threads[id].current_frame < threads[id].frame_count
    /\ threads[id].segment_id < threads[id].max_segments

\* C19: a read failure at a planned frame after k frames were read and
\* classified keeps the k segments: the job does not fail because of it, its
\* result file holds exactly the k segments, and when the worker ends the
\* status is completed and the result is stored.
C19_DecodeFailureKeepsSegments ==
    \A id \in Ids :
      Truncated(id)
      => /\ Len(threads[id].road_segments) = threads[id].segment_id
         /\ active_analyses[id].status # "failed"
         /\ active_analyses[id].error = "None"
         /\ files[id].state = "full" => files[id].data = threads[id].road_segments
         /\ threads[id].pc = "done"
            => /\ active_analyses[id].status = "completed"
               /\ active_analyses[id].result_path
               /\ files[id].state = "full"
               /\ Len(files[id].data) = threads[id].segment_id

\* Witness of C19: the read of the second planned frame failed and a result
\* call returns the one segment built before it.
C19_Witness ==
    \E id \in Ids :
      /\ Truncated(id)
      /\ threads[id].pc = "done"
      /\ threads[id].segment_id = 1
      /\ resp.op = "results"
      /\ resp.id = id
      /\ resp.code = 200
      /\ Len(resp.payload) = 1

\* What str(e) is when the detector cannot be called or raises.
DetectorErrors == {"'NoneType' object is not callable", "detector error"}

DetectorFailed(id) == Submitted(id) /\ threads[id].exc \in DetectorErrors

Outage(id) ==
    /\ Submitted(id)
    /\ threads[id].pc \notin {"open", "open_failed_error", "blocked"} \cup ResolverPcs
    /\ threads[id].road_coordinates # << >>
    /\ ~threads[id].answered

C22_ProgressMonotone ==
    [][\A id \in Ids :
         (Known(id) /\ active_analyses[id].status = "processing")
         => active_analyses'[id].progress >= active_analyses[id].progress]_vars

\* Witness of C22: a status call reads a progress the worker has raised at
\* least three times, on a job still processing.
C22_Witness ==
    /\ resp.op = "status"
    /\ resp.status = "processing"
    /\ Submitted(resp.id)
    /\ threads[resp.id].segment_id >= 3
    /\ resp.progress > 0
    /\ resp.progress < 99

\* C23: the only changes of a job's status are processing -> completed and
\* processing -> failed: a completed job never becomes failed and a failed job
\* never becomes completed, whatever step follows.
C23_TerminalAbsorbing ==
    [][\A id \in Ids :
         (Known(id) /\ active_analyses'[id].status # active_analyses[id].status)
         => (/\ active_analyses[id].status = "processing"
             /\ active_analyses'[id].status \in {"completed", "failed"})]_vars

\* Witness of C23: a job has ended completed and another has ended failed.
C23_Witness ==
    \E id \in Ids, other \in Ids :
      /\ Submitted(id) /\ Submitted(other)
      /\ threads[id].pc = "done" /\ threads[other].pc = "done"
      /\ active_analyses[id].status = "completed"
      /\ active_analyses[other].status = "failed"

\* C24: a raw geometry of 1 to 9 points, from tier 1 or from the geometry
\* branch of tier 2, gives a path of exactly 20 points.
C24_ShortGeometryTo20 ==
    \A id \in Ids :
      (HasPath(id) /\ threads[id].raw_count >= 1 /\ threads[id].raw_count <= 9)
      => Len(threads[id].road_coordinates) = 20

\* C25: a raw geometry of more than 50 points, from tier 1 or from the geometry
\* branch of tier 2, gives a path of exactly 50 points; each is a raw point,
\* their raw indices strictly increase, and the first and the last raw point
\* are the first and the last point of the path.
C25_LongGeometryTo50 ==
    \A id \in Ids :
      (HasPath(id) /\ threads[id].raw_count > 50)
      => LET path == threads[id].road_coordinates
             n == threads[id].raw_count
         IN  /\ Len(path) = 50
             /\ \A i \in 1..Len(path) :
                  /\ path[i][1] = path[1][1]
                  /\ path[i][2] % 19 = 0
                  /\ path[i][2] \div 19 \in 0..(n - 1)
             /\ \A i \in 1..(Len(path) - 1) : path[i][2] < path[i + 1][2]
             /\ path[1][2] = 0
             /\ path[Len(path)][2] = 19 * (n - 1)

\* Witness of C25: a job completed on the path made of a fallback geometry of
\* 51 points.
C25_Witness ==
    \E id \in Ids :
      /\ Submitted(id)
      /\ threads[id].pc = "done"
      /\ threads[id].raw_count = 51
      /\ threads[id].road_coordinates[1][1] = "geojson"
      /\ active_analyses[id].status = "completed"

\* C26: the progress stored on a record is an integer in 0..99: after each
\* sampled frame the worker writes min(99, floor(cursor * 100 / frameCount)),
\* and no other step changes the value, so 100 is never stored.
C26_ProgressValue ==
    [][\A id \in Ids :
         Known(id)
         => /\ FrameStep(id)
               => active_analyses'[id].progress
                    = Min(99, (threads'[id].current_frame * 100)
                                \div threads'[id].frame_count)
            /\ ~FrameStep(id)
               => active_analyses'[id].progress = active_analyses[id].progress
            /\ active_analyses'[id].progress \in 0..99]_vars

\* An Alligator (2) among the boxes.
HasAlligator(boxes) == \E i \in 1..Len(boxes) : boxes[i].cls = 2

\* C27: a sampled frame with at least one detection and no Pothole or Rutting
\* gives a segment of condition fair; its confidence is in [0.7, 0.9) when an
\* Alligator detection is present and in [0.6, 0.9) otherwise.
C27_NonSevereIsFair ==
    [][\A id \in Ids :
         (/\ FrameStep(id)
          /\ Len(threads'[id].boxes) > 0
          /\ ~HasSevereDefect(threads'[id].boxes))
         => LET seg == LastSegment(threads'[id])
            IN  /\ seg.condition = "fair"
                /\ seg.confidence < 9000
                /\ seg.confidence
                     >= (IF HasAlligator(threads'[id].boxes) THEN 7000 ELSE 6000)]_vars

\* Witness of C27: a job completed on a frame with two detections of cracks,
\* neither an Alligator, at the lowest confidence of the rule.
C27_Witness ==
    \E id \in Ids :
      /\ Submitted(id)
      /\ threads[id].pc = "done"
      /\ threads[id].boxes = << [cls |-> 0, conf |-> 4], [cls |-> 1, conf |-> 6] >>
      /\ Len(files[id].data) = 1
      /\ files[id].data[1].condition = "fair"
      /\ files[id].data[1].confidence = 6000

\* C28: once created, a job record is written only by the job's own worker: a
\* step that changes the record is a step of that worker, not of a handler,
\* and it changes no other record, so a job that fails leaves the records of
\* the other jobs as they are.
C28_RecordOwnedByWorker ==
    [][\A id \in Ids :
         (Known(id) /\ active_analyses'[id] # active_analyses[id])
         => (/\ threads[id].kind # "none"
             /\ threads'[id] # threads[id]
             /\ \A other \in Ids \ {id} :
                  /\ threads'[other] = threads[other]
                  /\ active_analyses'[other] = active_analyses[other]
             /\ handler' = handler
             /\ resp' = NoResponse)]_vars

\* Witness of C28: a job has failed while another job is in its loop, still
\* processing, and a status call reads that other job.
C28_Witness ==
    \E id \in Ids, other \in Ids :
      /\ Submitted(id) /\ Submitted(other)
      /\ active_analyses[id].status = "failed"
      /\ active_analyses[id].error # "None"
      /\ threads[other].pc = "loop"
      /\ resp.op = "status"
      /\ resp.id = other
      /\ resp.status = "processing"

\* The video of the job could not be opened.
OpenFailed(id) ==
    /\ Submitted(id)
    /\ \/ threads[id].pc = "open_failed_error"
       \/ active_analyses[id].error = "Failed to open video file"

\* C29: when the video cannot be opened the job fails at once: its status is
\* failed, the error is recorded when the worker ends, the worker ends without
\* calling the resolver or the detector, and no result is written.
C29_OpenFailureFailsJob ==
    \A id \in Ids :
      OpenFailed(id)
      => /\ active_analyses[id].status = "failed"
         /\ threads[id].pc \in {"open_failed_error", "done"}
         /\ threads[id].pc = "done"
            => active_analyses[id].error = "Failed to open video file"
         /\ threads[id].road_coordinates = << >>
         /\ ~threads[id].answered
         /\ threads[id].boxes = << >>
         /\ threads[id].segment_id = 0
         /\ threads[id].road_segments = << >>
         /\ files[id] = NoFile
         /\ ~active_analyses[id].result_path
         /\ ~active_analyses[id].report_path

\* Witness of C29: a status call reads the failure of a job whose video could
\* not be opened.
C29_Witness ==
    /\ resp.op = "status"
    /\ Submitted(resp.id)
    /\ OpenFailed(resp.id)
    /\ threads[resp.id].pc = "done"
    /\ resp.status = "failed"
    /\ resp.error = "Failed to open video file"

\* The number of frames the worker of id has run the detector on: one per
\* segment built, and the frame on which the iteration raised.
DetectorRuns(id) ==
    threads[id].segment_id
      + (IF threads[id].exc \in DetectorErrors \cup {"list index out of range"}
           THEN 1 ELSE 0)

\* C30: whatever the frame count and the path, the worker runs the detector on
\* at most 100 frames of a job.
C30_AtMost100Frames ==
    \A id \in Ids : Submitted(id) => DetectorRuns(id) <= 100

\* Witness of C30: a video of 2310 frames, with 101 indices to sample, of which
\* the worker has sampled 49 on a path of 50 points.
C30_Witness ==
    \E id \in Ids :
      /\ Submitted(id)
      /\ threads[id].frame_count = 2310
      /\ Len(threads[id].road_coordinates) = 50
      /\ DetectorRuns(id) = 49
      /\ threads[id].pc = "save_open"

\* C31: the randomized override (a confidence drawn from [0.7, 1.0) and a
\* condition drawn from good, fair and bad) is applied to a sampled frame if and
\* only if the frame has no detections.  With no detections the verdict of the
\* segment is the override's, whatever the rule drew; with detections the
\* confidence of the rule is at least 0.6, its condition is kept, and the
\* verdict does not depend on the draws of the override.
C31_OverrideIffNoDetections ==
    \A id \in Ids :
      (threads[id].kind = "process_video" /\ Len(threads[id].road_segments) > 0)
      => LET boxes == threads[id].boxes
             v == VerdictOf(LastSegment(threads[id]))
         IN  IF Len(boxes) = 0
               THEN /\ v.condition \in Conditions
                    /\ v.confidence >= 7000
                    /\ v.confidence < 10000
                    /\ \E r2 \in RandVals, choice \in Conditions :
                         /\ v = [condition |-> choice, confidence |-> 7000 + 3 * r2]
                         /\ \A r1 \in RandVals : v = Classify(boxes, r1, r2, choice)
               ELSE /\ v.condition = (IF HasSevereDefect(boxes) THEN "bad" ELSE "fair")
                    /\ v.confidence >= 6000
                    /\ \E r1 \in RandVals :
                         \A r2 \in RandVals, choice \in Conditions :
                           v = Classify(boxes, r1, r2, choice)

\* Witness of C31: a job completed on two frames.  The first had no detections
\* and its segment carries a condition drawn by the override; the second had one
\* crack detection of confidence 0.05 and its segment keeps the rule's verdict
\* at the lowest confidence the rule can draw.
C31_Witness ==
    \E id \in Ids :
      /\ Submitted(id)
      /\ threads[id].pc = "done"
      /\ Len(files[id].data) = 2
      /\ files[id].data[1].condition = "bad"
      /\ files[id].data[1].confidence = 7000
      /\ threads[id].boxes = << [cls |-> 0, conf |-> 5] >>
      /\ files[id].data[2].condition = "fair"
      /\ files[id].data[2].confidence = 6000

\* C32: the worker never indexes the resolved path out of bounds.  In every
\* iteration of the loop segment_id + 1 is at most len(path) - 1, for every
\* path the resolver returns and every frame count; the path points or the
\* frames in surplus are dropped and no index error is raised.
C32_NoIndexOutOfBounds ==
    \A id \in Ids :
      threads[id].kind = "process_video"
      => /\ threads[id].pc = "loop"
            => threads[id].segment_id + 1 <= Len(threads[id].road_coordinates) - 1
         /\ threads[id].exc # "list index out of range"
         /\ Len(threads[id].road_segments) = threads[id].segment_id
         /\ threads[id].segment_id <= Max(0, Len(threads[id].road_coordinates) - 1)

\* Witness of C32: a video of 25 frames, with 2 frames to sample, on a path of
\* 2 points: the worker has built the one segment the path allows, left the
\* second frame aside and completed the job.
C32_Witness ==
    \E id \in Ids :
      /\ Submitted(id)
      /\ threads[id].pc = "done"
      /\ threads[id].frame_count = 25
      /\ Len(threads[id].road_coordinates) = 2
      /\ threads[id].segment_id = 1
      /\ threads[id].current_frame = 10
      /\ threads[id].exc = "None"
      /\ active_analyses[id].status = "completed"
      /\ Len(files[id].data) = 1

\* The video of the job was opened and reported a frame rate of 0.
ZeroFps(id) == Submitted(id) /\ threads[id].fps = 0

\* C33: when an opened video reports a frame rate of 0 the job ends failed
\* with an error recorded, the division by zero of the duration: the exception
\* is caught by the worker, which goes on to write the status and the error and
\* ends, without calling the resolver and without building a segment or a
\* result.
C33_ZeroFpsFailsJob ==
    \A id \in Ids :
      ZeroFps(id)
      => /\ threads[id].exc = "float division by zero"
         /\ threads[id].pc \in {"except", "except_error", "done"}
         /\ threads[id].pc = "except" => ENABLED PvExcept(id)
         /\ threads[id].pc = "except_error"
              => active_analyses[id].status = "failed" /\ ENABLED PvExceptError(id)
         /\ threads[id].pc = "done"
              => /\ active_analyses[id].status = "failed"
                 /\ active_analyses[id].error = "float division by zero"
         /\ threads[id].road_coordinates = << >>
         /\ ~threads[id].answered
         /\ threads[id].boxes = << >>
         /\ threads[id].segment_id = 0
         /\ threads[id].road_segments = << >>
         /\ files[id] = NoFile
         /\ ~active_analyses[id].result_path
         /\ ~active_analyses[id].report_path

\* Witness of C33: the service answers a status call with the failure of a job
\* whose video reported a frame rate of 0 and 25 frames.
C33_Witness ==
    /\ resp.op = "status"
    /\ ZeroFps(resp.id)
    /\ threads[resp.id].frame_count = 25
    /\ threads[resp.id].pc = "done"
    /\ resp.status = "failed"
    /\ resp.error = "float division by zero"

====
